---------------------------- MODULE Spec2Model ----------------------------
(***************************************************************************)
(* Model of app.py, the drug-policy dashboard script: column detection,    *)
(* the two classifiers, the ETL of the three tables, the sidebar filters,  *)
(* the group-by aggregates and the tax-revenue simulation.                 *)
(*                                                                         *)
(* Text is a TLA+ string, read character by character with SubSeq.  A      *)
(* spreadsheet cell is a record [k, v, s]: k = "num" (a number, v),        *)
(* "str" (a text, s), "nan" (an empty cell, pandas' NaN) or "none"         *)
(* (Python's None).  A DataFrame is [columns, rows], rows being sequences  *)
(* of cells aligned with columns.  Numbers are integers; a mean or a       *)
(* product with a percentage is an exact fraction [n, d] in lowest terms.  *)
(***************************************************************************)
EXTENDS Integers, Sequences, FiniteSets, TLC

(***************************************************************************)
(* Python strings                                                          *)
(***************************************************************************)
Ch(s, i) == SubSeq(s, i, i)

UpperLetters == "ABCDEFGHIJKLMNOPQRSTUVWXYZ"
LowerLetters == "abcdefghijklmnopqrstuvwxyz"

\* str.lower() on one character: an upper-case letter to its lower case
LowerOf == [i \in 1..26 |-> Ch(LowerLetters, i)]
UpperSet == {Ch(UpperLetters, i) : i \in 1..26}
UpperIndex == [c \in UpperSet |-> CHOOSE i \in 1..26 : Ch(UpperLetters, i) = c]

LowerChar(c) == IF c \in UpperSet THEN LowerOf[UpperIndex[c]] ELSE c

RECURSIVE LowerFrom(_, _)
LowerFrom(s, i) ==
    IF i > Len(s) THEN "" ELSE LowerChar(Ch(s, i)) \o LowerFrom(s, i + 1)

\* str.lower()
Lower(s) == LowerFrom(s, 1)

Whitespace == {" ", "\t", "\n"}

\* str.strip(): drops the whitespace at both ends
Strip(s) ==
    LET keep == {i \in 1..Len(s) : Ch(s, i) \notin Whitespace}
    IN  IF keep = {} THEN ""
        ELSE SubSeq(s, CHOOSE i \in keep : \A j \in keep : i <= j,
                       CHOOSE i \in keep : \A j \in keep : j <= i)

RECURSIVE ReplaceFrom(_, _, _, _)
ReplaceFrom(s, old, new, i) ==
    IF i > Len(s) THEN ""
    ELSE IF i + Len(old) - 1 <= Len(s) /\ SubSeq(s, i, i + Len(old) - 1) = old
         THEN new \o ReplaceFrom(s, old, new, i + Len(old))
         ELSE Ch(s, i) \o ReplaceFrom(s, old, new, i + 1)

\* str.replace(old, new), old not empty: every occurrence, left to right
Replace(s, old, new) == ReplaceFrom(s, old, new, 1)

\* the Python test  sub in s
Contains(s, sub) ==
    \E i \in 1..(Len(s) - Len(sub) + 1) : SubSeq(s, i, i + Len(sub) - 1) = sub

Digits == "0123456789"
DigitOf(c) == (CHOOSE i \in 1..10 : Ch(Digits, i) = c) - 1
IsDigit(c) == \E i \in 1..10 : Ch(Digits, i) = c

RECURSIVE NatToStr(_)
NatToStr(n) ==
    IF n < 10 THEN Ch(Digits, n + 1)
    ELSE NatToStr(n \div 10) \o Ch(Digits, (n % 10) + 1)

\* str(n) of an integer
IntToStr(n) == IF n < 0 THEN "-" \o NatToStr(0 - n) ELSE NatToStr(n)

RECURSIVE StrToNat(_, _)
StrToNat(s, i) ==
    IF i = 0 THEN 0 ELSE 10 * StrToNat(s, i - 1) + DigitOf(Ch(s, i))

(***************************************************************************)
(* Cells and Python's None                                                 *)
(***************************************************************************)
Num(n) == [k |-> "num", v |-> n, s |-> ""]
Str(t) == [k |-> "str", v |-> 0, s |-> t]
NaN    == [k |-> "nan", v |-> 0, s |-> ""]
PyNone == [k |-> "none", v |-> 0, s |-> ""]

\* pd.isna
isna(c) == c.k \in {"nan", "none"}

\* the result of a column detection: a column name, or None
None      == [found |-> FALSE, col |-> ""]
Found(c)  == [found |-> TRUE, col |-> c]

(***************************************************************************)
(* Column detection (app.py 10-28)                                         *)
(***************************************************************************)
CountryCandidates ==
    << "Country", "Country_Territory", "Country/Territory",
       "Country_or_territory", "Territory" >>

YearCandidates == << "Year", "Reference_year", "Reference_period" >>

\* for col in df.columns: for c in candidates: if col.lower() == c.lower()
RECURSIVE DetectFrom(_, _, _)
DetectFrom(columns, candidates, i) ==
    IF i > Len(columns) THEN None
    ELSE LET col == Lower(columns[i])
         IN  IF \E j \in 1..Len(candidates) : col = Lower(candidates[j])
             THEN Found(columns[i])
             ELSE DetectFrom(columns, candidates, i + 1)

detect_country_column(columns) == DetectFrom(columns, CountryCandidates, 1)

detect_year_column(columns) == DetectFrom(columns, YearCandidates, 1)

(***************************************************************************)
(* Header normalisation, one per table (app.py 98, 125, 146)               *)
(***************************************************************************)
\* prices.columns.str.strip().str.replace(" ", "_").str.replace("/", "_")
PricesHeader(h) == Replace(Replace(Strip(h), " ", "_"), "/", "_")

\* seizures.columns.str.strip().str.replace(" ", "_")
SeizuresHeader(h) == Replace(Strip(h), " ", "_")

\* a variant: the crimes normaliser replacing slashes and colons by underscores
CrimesHeaderUnderscoring(h) ==
    Replace(Replace(Replace(Strip(h), " ", "_"), "/", "_"), ":", "_")

\* crimes.columns.str.strip().str.replace(" ", "_").str.replace(":", "")
CrimesHeader(h) == Replace(Replace(Strip(h), " ", "_"), ":", "")

PricesColumns(columns) == [i \in 1..Len(columns) |-> PricesHeader(columns[i])]
SeizuresColumns(columns) == [i \in 1..Len(columns) |-> SeizuresHeader(columns[i])]
CrimesColumns(columns) == [i \in 1..Len(columns) |-> CrimesHeader(columns[i])]

(***************************************************************************)
(* Economic classification (app.py 34-49)                                  *)
(***************************************************************************)
OECD_COUNTRIES ==
    { "United States", "Canada", "Mexico",
      "Germany", "France", "United Kingdom", "Italy", "Spain",
      "Netherlands", "Belgium", "Luxembourg",
      "Switzerland", "Austria", "Sweden", "Norway", "Denmark",
      "Finland", "Ireland", "Portugal", "Greece",
      "Japan", "South Korea", "Australia", "New Zealand",
      "Israel", "Turkey", "Chile", "Colombia",
      "Poland", "Czech Republic", "Slovakia", "Hungary",
      "Estonia", "Latvia", "Lithuania", "Slovenia" }

\* a variant: the membership test made on the trimmed name, whatever its case
classify_country_folded(country) ==
    IF country.k = "str"
       /\ \E c \in OECD_COUNTRIES : Lower(Strip(country.s)) = Lower(c)
    THEN "Desenvolvido"
    ELSE "Em desenvolvimento"

\* country in OECD_COUNTRIES: only a text equal to a member is in the set
classify_country(country) ==
    IF country.k = "str" /\ country.s \in OECD_COUNTRIES
    THEN "Desenvolvido"
    ELSE "Em desenvolvimento"

(***************************************************************************)
(* Drug tags (app.py 55-70)                                                *)
(***************************************************************************)
\* a variant: the dict with its tags in alphabetical order
DRUG_TAGS_sorted ==
    << [tag |-> "Amphetamine", keys |-> <<"amphetamine", "ats">>],
       [tag |-> "Cannabis",    keys |-> <<"cannabis", "marijuana", "hashish">>],
       [tag |-> "Cocaine",     keys |-> <<"cocaine">>],
       [tag |-> "Heroin",      keys |-> <<"heroin">>],
       [tag |-> "MDMA",        keys |-> <<"mdma", "ecstasy">>] >>

\* the dict in insertion order
DRUG_TAGS ==
    << [tag |-> "MDMA",        keys |-> <<"mdma", "ecstasy">>],
       [tag |-> "Cocaine",     keys |-> <<"cocaine">>],
       [tag |-> "Heroin",      keys |-> <<"heroin">>],
       [tag |-> "Cannabis",    keys |-> <<"cannabis", "marijuana", "hashish">>],
       [tag |-> "Amphetamine", keys |-> <<"amphetamine", "ats">>] >>

\* str(name) of a cell that is not missing
PyStr(c) == IF c.k = "num" THEN IntToStr(c.v) ELSE c.s

\* for tag, keys in DRUG_TAGS.items(): if any(k in name for k in keys)
RECURSIVE TagFrom(_, _)
TagFrom(name, i) ==
    IF i > Len(DRUG_TAGS) THEN PyNone
    ELSE IF \E j \in 1..Len(DRUG_TAGS[i].keys) :
               Contains(name, DRUG_TAGS[i].keys[j])
         THEN Str(DRUG_TAGS[i].tag)
         ELSE TagFrom(name, i + 1)

tag_drug(name) ==
    IF isna(name) THEN PyNone ELSE TagFrom(Lower(PyStr(name)), 1)

(***************************************************************************)
(* Floating-point results: an exact fraction n/d (d > 0, lowest terms),    *)
(* or nan, inf, -inf where the division by zero of pandas gives them       *)
(***************************************************************************)
Abs(a) == IF a < 0 THEN 0 - a ELSE a

RECURSIVE Gcd(_, _)
Gcd(a, b) == IF b = 0 THEN a ELSE Gcd(b, a % b)

FNaN  == [k |-> "nan",  n |-> 0, d |-> 1]
FInf  == [k |-> "inf",  n |-> 0, d |-> 1]
FNInf == [k |-> "-inf", n |-> 0, d |-> 1]

Frac(n, d) ==
    LET g  == Gcd(Abs(n), Abs(d))
        sg == IF d < 0 THEN 0 - 1 ELSE 1
    IN  [k |-> "num", n |-> (sg * n) \div g, d |-> (sg * d) \div g]

FInt(a) == [k |-> "num", n |-> a, d |-> 1]

FSign(a) ==
    CASE a.k = "inf"  -> 1
      [] a.k = "-inf" -> 0 - 1
      [] a.k = "nan"  -> 0
      [] OTHER        -> IF a.n > 0 THEN 1 ELSE IF a.n < 0 THEN 0 - 1 ELSE 0

FMul(a, b) ==
    IF a.k = "num" /\ b.k = "num" THEN Frac(a.n * b.n, a.d * b.d)
    ELSE IF a.k = "nan" \/ b.k = "nan" \/ FSign(a) = 0 \/ FSign(b) = 0 THEN FNaN
    ELSE IF FSign(a) * FSign(b) > 0 THEN FInf ELSE FNInf

FAdd(a, b) ==
    IF a.k = "num" /\ b.k = "num" THEN Frac(a.n * b.d + b.n * a.d, a.d * b.d)
    ELSE IF a.k = "nan" \/ b.k = "nan" THEN FNaN
    ELSE IF a.k = "num" THEN b
    ELSE IF b.k = "num" THEN a
    ELSE IF a.k = b.k THEN a ELSE FNaN

\* float division: x / 0 is nan, inf or -inf, never an exception
FDiv(a, b) ==
    IF a.k = "num" /\ b.k = "num"
    THEN IF b.n # 0 THEN Frac(a.n * b.d, a.d * b.n)
         ELSE IF a.n = 0 THEN FNaN ELSE IF a.n > 0 THEN FInf ELSE FNInf
    ELSE FNaN

\* a < b as floats: every comparison with nan is false
FLess(a, b) ==
    CASE a.k = "nan" \/ b.k = "nan" -> FALSE
      [] a.k = "num" /\ b.k = "num" -> a.n * b.d < b.n * a.d
      [] OTHER -> FSign(a) < FSign(b) \/ (a.k = "-inf" /\ b.k = "num")
                  \/ (a.k = "num" /\ b.k = "inf")

(***************************************************************************)
(* pandas                                                                  *)
(***************************************************************************)
\* what a text parses to under pd.to_numeric: an optional sign and digits
IsNumeric(s) ==
    LET body == IF Len(s) > 0 /\ Ch(s, 1) = "-" THEN SubSeq(s, 2, Len(s)) ELSE s
    IN  Len(body) > 0 /\ \A i \in 1..Len(body) : IsDigit(Ch(body, i))

ParseInt(s) ==
    IF Ch(s, 1) = "-" THEN 0 - StrToNat(SubSeq(s, 2, Len(s)), Len(s) - 1)
    ELSE StrToNat(s, Len(s))

\* pd.to_numeric(..., errors="coerce") on one cell
to_numeric(c) ==
    CASE c.k = "num" -> c
      [] c.k = "str" -> IF IsNumeric(c.s) THEN Num(ParseInt(c.s)) ELSE NaN
      [] OTHER       -> NaN

HasCol(df, name) == \E i \in 1..Len(df.columns) : df.columns[i] = name

ColIndex(df, name) ==
    CHOOSE i \in 1..Len(df.columns) :
        /\ df.columns[i] = name
        /\ \A j \in 1..(i - 1) : df.columns[j] # name

\* df[name]
Column(df, name) ==
    [r \in 1..Len(df.rows) |-> df.rows[r][ColIndex(df, name)]]

\* df[name] = values: replaces the column, or appends it
SetColumn(df, name, values) ==
    IF HasCol(df, name)
    THEN [df EXCEPT !.rows =
            [r \in 1..Len(df.rows) |->
                [df.rows[r] EXCEPT ![ColIndex(df, name)] = values[r]]]]
    ELSE [columns |-> Append(df.columns, name),
          rows |-> [r \in 1..Len(df.rows) |-> Append(df.rows[r], values[r])]]

\* df.rename(columns=mapper): mapper is the dict as its items in order, a
\* later item with the same key replacing an earlier one, each key a
\* detection result (None is the key no column has)
RenameColumns(df, mapper) ==
    LET hits(c) == {m \in 1..Len(mapper) : mapper[m].key = Found(c)}
        last(c) == CHOOSE m \in hits(c) : \A o \in hits(c) : o <= m
    IN  [df EXCEPT !.columns =
            [i \in 1..Len(df.columns) |->
                IF hits(df.columns[i]) = {} THEN df.columns[i]
                ELSE mapper[last(df.columns[i])].new]]

\* the labels of subset that are no column of df: dropna raises KeyError
MissingLabels(df, subset) ==
    SelectSeq(subset, LAMBDA c : ~HasCol(df, c))

\* df.dropna(subset=...): keeps, in order, the rows with no missing cell
\* in the subset
dropna(df, subset) ==
    [df EXCEPT !.rows =
        SelectSeq(df.rows,
            LAMBDA row : \A j \in 1..Len(subset) :
                            ~isna(row[ColIndex(df, subset[j])]))]

\* df[col].apply(f) written back as df[name]
Cell(df, r, name) == df.rows[r][ColIndex(df, name)]

(***************************************************************************)
(* What the run shows the user when it halts                               *)
(***************************************************************************)
NoDiagnostic == [kind |-> "none", section |-> "", key |-> "", columns |-> <<>>]

\* st.error(...); st.write(prices.columns.tolist()); st.stop()
ColumnsDiagnostic(section, columns) ==
    [kind |-> "columns", section |-> section, key |-> "", columns |-> columns]

\* an uncaught KeyError: the traceback names the missing label only
KeyErrorDiagnostic(section, key) ==
    [kind |-> "KeyError", section |-> section, key |-> key, columns |-> <<>>]

\* an uncaught TypeError
TypeErrorDiagnostic(section, key) ==
    [kind |-> "TypeError", section |-> section, key |-> key, columns |-> <<>>]

EmptyFrame == [columns |-> <<>>, rows |-> <<>>]

\* df[name] = pd.to_numeric(df[name], errors="coerce")
ToNumeric(df, name) ==
    SetColumn(df, name, [r \in 1..Len(df.rows) |-> to_numeric(Cell(df, r, name))])

\* df["Drug_Tag"] = df[from].apply(tag_drug)
TagDrugs(df, from) ==
    SetColumn(df, "Drug_Tag", [r \in 1..Len(df.rows) |-> tag_drug(Cell(df, r, from))])

\* df["Economic_Status"] = df["Country"].apply(classify_country)
ClassifyCountries(df) ==
    SetColumn(df, "Economic_Status",
              [r \in 1..Len(df.rows) |-> Str(classify_country(Cell(df, r, "Country")))])

Outcome(status, df, yc, cc, diag) ==
    [status |-> status, df |-> df, year_col |-> yc, country_col |-> cc,
     diagnostic |-> diag]

(***************************************************************************)
(* ETL - PRICES (app.py 98-119)                                            *)
(***************************************************************************)
PricesSubset == << "Year", "Price_USD", "Drug", "Region" >>

etl_prices(loaded) ==
    LET d1 == [loaded EXCEPT !.columns = PricesColumns(loaded.columns)]
        yc == detect_year_column(d1.columns)
        cc == detect_country_column(d1.columns)
        d2 == RenameColumns(d1, << [key |-> yc, new |-> "Year"],
                                   [key |-> cc, new |-> "Country"],
                                   [key |-> Found("Typical_USD"), new |-> "Price_USD"] >>)
        d3 == ToNumeric(d2, "Year")
        d4 == ToNumeric(d3, "Price_USD")
        d5 == dropna(d4, PricesSubset)
        d6 == TagDrugs(d5, "Drug")
        d7 == ClassifyCountries(d6)
    IN  IF ~yc.found \/ ~cc.found
        THEN Outcome("stop", d1, yc, cc, ColumnsDiagnostic("prices", d1.columns))
        ELSE IF ~HasCol(d3, "Price_USD")
        THEN Outcome("error", d3, yc, cc, KeyErrorDiagnostic("prices", "Price_USD"))
        ELSE IF MissingLabels(d4, PricesSubset) # <<>>
        THEN Outcome("error", d4, yc, cc,
                     KeyErrorDiagnostic("prices", MissingLabels(d4, PricesSubset)[1]))
        ELSE Outcome("ok", d7, yc, cc, NoDiagnostic)

(***************************************************************************)
(* ETL - SEIZURES (app.py 125-140): no check of the detected columns       *)
(***************************************************************************)
SeizuresSubset == << "Year", "Kilograms", "DrugName", "Region", "Country" >>

etl_seizures(loaded) ==
    LET d1 == [loaded EXCEPT !.columns = SeizuresColumns(loaded.columns)]
        yc == detect_year_column(d1.columns)
        cc == detect_country_column(d1.columns)
        d2 == RenameColumns(d1, << [key |-> yc, new |-> "Year"],
                                   [key |-> cc, new |-> "Country"] >>)
        d3 == ToNumeric(d2, "Year")
        d4 == ToNumeric(d3, "Kilograms")
        d5 == dropna(d4, SeizuresSubset)
        d6 == TagDrugs(d5, "DrugName")
        d7 == ClassifyCountries(d6)
    IN  IF ~HasCol(d2, "Year")
        THEN Outcome("error", d2, yc, cc, KeyErrorDiagnostic("seizures", "Year"))
        ELSE IF ~HasCol(d3, "Kilograms")
        THEN Outcome("error", d3, yc, cc, KeyErrorDiagnostic("seizures", "Kilograms"))
        ELSE IF MissingLabels(d4, SeizuresSubset) # <<>>
        THEN Outcome("error", d4, yc, cc,
                     KeyErrorDiagnostic("seizures", MissingLabels(d4, SeizuresSubset)[1]))
        ELSE Outcome("ok", d7, yc, cc, NoDiagnostic)

(***************************************************************************)
(* ETL - CRIMES (app.py 146-158): Calculated_total is left as loaded       *)
(***************************************************************************)
CrimesSubset == << "Year", "Country" >>

etl_crimes(loaded) ==
    LET d1 == [loaded EXCEPT !.columns = CrimesColumns(loaded.columns)]
        yc == detect_year_column(d1.columns)
        cc == detect_country_column(d1.columns)
        d2 == RenameColumns(d1, << [key |-> yc, new |-> "Year"],
                                   [key |-> cc, new |-> "Country"] >>)
        d3 == ToNumeric(d2, "Year")
        d4 == dropna(d3, CrimesSubset)
        d5 == ClassifyCountries(d4)
    IN  IF ~HasCol(d2, "Year")
        THEN Outcome("error", d2, yc, cc, KeyErrorDiagnostic("crimes", "Year"))
        ELSE IF MissingLabels(d3, CrimesSubset) # <<>>
        THEN Outcome("error", d3, yc, cc,
                     KeyErrorDiagnostic("crimes", MissingLabels(d3, CrimesSubset)[1]))
        ELSE Outcome("ok", d5, yc, cc, NoDiagnostic)

(***************************************************************************)
(* Filters (app.py 167-196)                                                *)
(***************************************************************************)
\* Series.isin(selection): a missing value is in no selection of texts
isin(c, selection) == c.k = "str" /\ c.s \in selection

\* sorted(df[col].dropna().unique()): the options of a multiselect
Options(df, col) ==
    {Cell(df, r, col).s : r \in {q \in 1..Len(df.rows) : ~isna(Cell(df, q, col))}}

EconOptions == {"Desenvolvido", "Em desenvolvimento"}

RECURSIVE Masked(_, _, _)
Masked(rows, mask, i) ==
    IF i > Len(rows) THEN <<>>
    ELSE (IF mask[i] THEN << rows[i] >> ELSE <<>>) \o Masked(rows, mask, i + 1)

\* df[mask]: the rows, in order, the boolean mask holds of
Where(df, mask) == [df EXCEPT !.rows = Masked(df.rows, mask, 1)]

\* a variant: an empty drug selection read as no restriction, as an empty
\* country selection is
FilterPricesEmptyIsAll(df, tags, statuses, picked) ==
    LET d1 == Where(df, [r \in 1..Len(df.rows) |->
                    /\ tags # {} => isin(Cell(df, r, "Drug_Tag"), tags)
                    /\ isin(Cell(df, r, "Economic_Status"), statuses)])
    IN  IF picked # {}
        THEN Where(d1, [r \in 1..Len(d1.rows) |-> isin(Cell(d1, r, "Country"), picked)])
        ELSE d1

\* df_price (app.py 190-196)
FilterPrices(df, tags, statuses, picked) ==
    LET d1 == Where(df, [r \in 1..Len(df.rows) |->
                    /\ isin(Cell(df, r, "Drug_Tag"), tags)
                    /\ isin(Cell(df, r, "Economic_Status"), statuses)])
    IN  IF picked # {}
        THEN Where(d1, [r \in 1..Len(d1.rows) |-> isin(Cell(d1, r, "Country"), picked)])
        ELSE d1

(***************************************************************************)
(* Group-by aggregation: pandas folds the rows of a group in row order     *)
(***************************************************************************)
KeyOf(df, r, keys) == [j \in 1..Len(keys) |-> Cell(df, r, keys[j])]

\* groupby(keys) drops the rows with a missing key
GroupKeys(df, keys) ==
    {KeyOf(df, r, keys) :
        r \in {q \in 1..Len(df.rows) :
                 \A j \in 1..Len(keys) : ~isna(Cell(df, q, keys[j]))}}

NoSum == [t |-> Num(0), nobs |-> 0, err |-> FALSE]

\* one step of group_sum: a missing value is skipped, the first value is
\* taken as it is, a later one is added with Python's +: numbers add,
\* texts concatenate, a number and a text raise TypeError
SumStep(acc, val) ==
    IF isna(val) \/ acc.err THEN acc
    ELSE IF acc.nobs = 0 THEN [t |-> val, nobs |-> 1, err |-> FALSE]
    ELSE IF acc.t.k = "num" /\ val.k = "num"
         THEN [t |-> Num(acc.t.v + val.v), nobs |-> acc.nobs + 1, err |-> FALSE]
    ELSE IF acc.t.k = "str" /\ val.k = "str"
         THEN [t |-> Str(acc.t.s \o val.s), nobs |-> acc.nobs + 1, err |-> FALSE]
    ELSE [acc EXCEPT !.err = TRUE]

RECURSIVE GroupFold(_, _, _, _, _, _)
GroupFold(df, keys, key, col, r, acc) ==
    IF r > Len(df.rows) THEN acc
    ELSE GroupFold(df, keys, key, col, r + 1,
                   IF KeyOf(df, r, keys) = key
                   THEN SumStep(acc, Cell(df, r, col)) ELSE acc)

\* [t: the sum, nobs: the count of values, err: TypeError] of one group
GroupSum(df, keys, key, col) == GroupFold(df, keys, key, col, 1, NoSum)

\* the mean of a group of a numeric column
GroupMean(df, keys, key, col) ==
    LET g == GroupSum(df, keys, key, col)
    IN  FDiv(FInt(g.t.v), FInt(g.nobs))

\* a numeric cell as a float
FCell(c) == IF c.k = "num" THEN FInt(c.v) ELSE FNaN

\* groupby(["Year", "Economic_Status"]).agg(Price_USD=mean) (app.py 228-232)
PriceTrend(df) ==
    {[Year |-> key[1], Economic_Status |-> key[2],
      Price_USD |-> GroupMean(df, <<"Year", "Economic_Status">>, key, "Price_USD")] :
        key \in GroupKeys(df, <<"Year", "Economic_Status">>)}

\* the filtered seizures summed by (Year, Economic_Status) (app.py 249-256)
SeizReg(df, tags, statuses) ==
    LET d1 == Where(df, [r \in 1..Len(df.rows) |->
                    /\ isin(Cell(df, r, "Drug_Tag"), tags)
                    /\ isin(Cell(df, r, "Economic_Status"), statuses)])
    IN  {[Year |-> key[1], Economic_Status |-> key[2],
          Kilograms |-> FCell(GroupSum(d1, <<"Year", "Economic_Status">>, key, "Kilograms").t)] :
            key \in GroupKeys(d1, <<"Year", "Economic_Status">>)}

\* price_trend.merge(seiz_reg, on=[Year, Economic_Status], how="inner")
RepMerge(pt, sr) ==
    {[Year |-> a.Year, Economic_Status |-> a.Economic_Status,
      Price_USD |-> a.Price_USD, Kilograms |-> b.Kilograms] :
        <<a, b>> \in {<<a, b>> \in pt \X sr :
                        a.Year = b.Year /\ a.Economic_Status = b.Economic_Status}}

\* seizures.groupby("Country")["Kilograms"].sum() (app.py 294)
SeizCountry(df) ==
    {[Country |-> key[1],
      Kilograms |-> FCell(GroupSum(df, <<"Country">>, key, "Kilograms").t)] :
        key \in GroupKeys(df, <<"Country">>)}

\* crimes.groupby("Country")["Calculated_total"].sum() (app.py 295): the
\* column is as loaded, so a sum is a number or a text
CrimeCountry(df) ==
    {[Country |-> key[1],
      Calculated_total |-> GroupSum(df, <<"Country">>, key, "Calculated_total").t] :
        key \in GroupKeys(df, <<"Country">>)}

CrimeCountryRaises(df) ==
    \E key \in GroupKeys(df, <<"Country">>) :
        GroupSum(df, <<"Country">>, key, "Calculated_total").err

\* seiz_country.merge(crime_country, on="Country", how="inner") (app.py 297)
TrafficMerge(sc, cc) ==
    {[Country |-> a.Country, Kilograms |-> a.Kilograms,
      Calculated_total |-> b.Calculated_total] :
        <<a, b>> \in {<<a, b>> \in sc \X cc : a.Country = b.Country}}

\* Series.max(): nan of an empty column
FMax(S) ==
    IF S = {} THEN FNaN ELSE CHOOSE m \in S : \A o \in S : ~FLess(m, o)

\* Traffic_Score (app.py 299-302), of a merge whose totals are numbers
TrafficScore(tr) ==
    LET maxK == FMax({r.Kilograms : r \in tr})
        maxC == FMax({FCell(r.Calculated_total) : r \in tr})
    IN  {[Country |-> r.Country, Kilograms |-> r.Kilograms,
          Calculated_total |-> r.Calculated_total,
          Traffic_Score |-> FAdd(FDiv(r.Kilograms, maxK),
                                 FDiv(FCell(r.Calculated_total), maxC))] :
            r \in tr}

\* a variant: sort_values(f) in its default ascending order
FirstAscending(S, f) ==
    LET real == {m \in S : m[f].k # "nan"}
    IN  IF real = {} THEN S
        ELSE {m \in real : \A o \in real : ~FLess(o[f], m[f])}

\* sort_values(f, ascending=False): nan last, the order of equal values
\* being whatever the sort of the build leaves
First(S, f) ==
    LET real == {m \in S : m[f].k # "nan"}
    IN  IF real = {} THEN S
        ELSE {m \in real : \A o \in real : ~FLess(m[f], o[f])}

RECURSIVE Descending(_, _)
Descending(S, f) ==
    IF S = {} THEN {<<>>}
    ELSE UNION {{<<m>> \o t : t \in Descending(S \ {m}, f)} : m \in First(S, f)}

\* df.head(n)
head(seq, n) == SubSeq(seq, 1, IF n < Len(seq) THEN n ELSE Len(seq))

(***************************************************************************)
(* Revenue simulation (app.py 337-370)                                     *)
(***************************************************************************)
VolumeMultiplier == 800

\* one row of country_sim from the mean price and the count of a country
SimRow(country, avg, transactions, tax, reduction) ==
    LET volume == transactions * VolumeMultiplier
        legal  == FMul(avg, FAdd(FInt(1), Frac(0 - reduction, 100)))
    IN  [Country |-> country, Avg_Price |-> avg, Transactions |-> transactions,
         Estimated_Volume |-> volume, Legal_Price |-> legal,
         Tax_Revenue |-> FMul(FMul(legal, Frac(tax, 100)), FInt(volume))]

\* country_sim before the ranking
CountrySim(df, tax, reduction) ==
    {SimRow(key[1], GroupMean(df, <<"Country">>, key, "Price_USD"),
            GroupSum(df, <<"Country">>, key, "Price_USD").nobs, tax, reduction) :
        key \in GroupKeys(df, <<"Country">>)}

\* groupby(["Year", "Country"]).agg(Price_USD=mean) (app.py 398-402)
Trend(df) ==
    {[Year |-> key[1], Country |-> key[2],
      Price_USD |-> GroupMean(df, <<"Year", "Country">>, key, "Price_USD")] :
        key \in GroupKeys(df, <<"Year", "Country">>)}

\* the four KPIs (app.py 203-206)
Kpis(df) ==
    LET n == Len(df.rows)
        total == GroupFold(df, <<>>, <<>>, "Price_USD", 1, NoSum)
    IN  [mean_price |-> IF n = 0 THEN FNaN ELSE FDiv(FInt(total.t.v), FInt(total.nobs)),
         countries |-> Cardinality(GroupKeys(df, <<"Country">>)),
         years |-> Cardinality(GroupKeys(df, <<"Year">>)),
         statuses |-> Cardinality(GroupKeys(df, <<"Economic_Status">>))]

(***************************************************************************)
(* Bounds of the model                                                     *)
(***************************************************************************)
\* widget changes in one session
MaxInteractions == 2
\* entries the user picks in the drug and country multiselects
MaxSelected == 1
\* rows of a table whose rows vary
MaxRows == 2
\* columns of a header list given to the column normaliser
MaxColumns == 2
\* fragments a drug name is made of
MaxTokens == 2

(***************************************************************************)
(* The sliders (app.py 337-339)                                            *)
(***************************************************************************)
TaxMin == 5
TaxMax == 50
TaxDefault == 20
ReductionMin == 0
ReductionMax == 60
ReductionDefault == 30
TopMin == 5
TopMax == 30
TopDefault == 15
\* top_traffic = ... .head(15) (app.py 304)
TopTraffic == 15

(***************************************************************************)
(* State                                                                   *)
(***************************************************************************)
VARIABLES
    pc,              \* the section of the script the run is at
    files,           \* the three spreadsheets on disk
    cache,           \* the st.cache_data entry of load_data
    prices, seizures, crimes,
    year_col, country_col,
    diagnostic,      \* what a halted run shows
    ui,              \* the widget values the session keeps between runs
    interactions,    \* widget changes so far
    drug_tags, econ_status, countries,
    df_price, kpis, price_trend, seiz_reg, rep_merge,
    seiz_country, crime_country, traffic_rank, top_traffic,
    tax_rate, price_reduction, top_n, country_sim, trend,
    call, ret        \* one call of a function of the module, and its result

scriptVars ==
    << prices, seizures, crimes, year_col, country_col, diagnostic,
       drug_tags, econ_status, countries, df_price, kpis, price_trend,
       seiz_reg, rep_merge, seiz_country, crime_country, traffic_rank,
       top_traffic, tax_rate, price_reduction, top_n, country_sim, trend >>

vars == << pc, files, cache, ui, interactions, scriptVars, call, ret >>

NoKpis == [mean_price |-> FNaN, countries |-> 0, years |-> 0, statuses |-> 0]

\* the namespace of the script before its first line
FreshScript ==
    /\ prices = EmptyFrame /\ seizures = EmptyFrame /\ crimes = EmptyFrame
    /\ year_col = None /\ country_col = None
    /\ diagnostic = NoDiagnostic
    /\ drug_tags = {} /\ econ_status = {} /\ countries = {}
    /\ df_price = EmptyFrame /\ kpis = NoKpis
    /\ price_trend = {} /\ seiz_reg = {} /\ rep_merge = {}
    /\ seiz_country = {} /\ crime_country = {} /\ traffic_rank = {}
    /\ top_traffic = <<>>
    /\ tax_rate = 0 /\ price_reduction = 0 /\ top_n = 0
    /\ country_sim = <<>> /\ trend = {}

\* the same namespace, of the run that starts
StartAfresh ==
    /\ prices' = EmptyFrame /\ seizures' = EmptyFrame /\ crimes' = EmptyFrame
    /\ year_col' = None /\ country_col' = None
    /\ diagnostic' = NoDiagnostic
    /\ drug_tags' = {} /\ econ_status' = {} /\ countries' = {}
    /\ df_price' = EmptyFrame /\ kpis' = NoKpis
    /\ price_trend' = {} /\ seiz_reg' = {} /\ rep_merge' = {}
    /\ seiz_country' = {} /\ crime_country' = {} /\ traffic_rank' = {}
    /\ top_traffic' = <<>>
    /\ tax_rate' = 0 /\ price_reduction' = 0 /\ top_n' = 0
    /\ country_sim' = <<>> /\ trend' = {}

Untouched == [set |-> FALSE, val |-> {}]
UntouchedSlider == [set |-> FALSE, val |-> 0]

NoUi ==
    [drug_tags |-> Untouched, econ_status |-> Untouched, countries |-> Untouched,
     tax_rate |-> UntouchedSlider, price_reduction |-> UntouchedSlider,
     top_n |-> UntouchedSlider]

NoCache ==
    [loaded |-> FALSE,
     value |-> [prices |-> EmptyFrame, seizures |-> EmptyFrame, crimes |-> EmptyFrame]]

NoCall == [fn |-> "", arg |-> <<>>]

(***************************************************************************)
(* LOAD DATA (app.py 84-92)                                                *)
(***************************************************************************)
\* a variant: the cache handing out the cached object itself
CacheHandsOutTheObject == FALSE

\* st.cache_data hands every caller its own copy of the cached value, so
\* the in-place assignments of the ETL never reach the cache entry
CacheHandsOutCopies == TRUE

\* load_data(): reads the files on the first call of the process
load_data ==
    IF cache.loaded THEN cache ELSE [loaded |-> TRUE, value |-> files]

\* the cache entry after  df.columns = columns  on a loaded table
AfterColumnsAssigned(table, columns) ==
    IF CacheHandsOutCopies THEN cache
    ELSE [cache EXCEPT !.value[table].columns = columns]

Load ==
    /\ pc = "load"
    /\ cache' = load_data
    /\ prices' = load_data.value.prices
    /\ seizures' = load_data.value.seizures
    /\ crimes' = load_data.value.crimes
    /\ pc' = "etl_prices"
    /\ UNCHANGED << files, ui, interactions, year_col, country_col, diagnostic,
                    drug_tags, econ_status, countries, df_price, kpis,
                    price_trend, seiz_reg, rep_merge, seiz_country,
                    crime_country, traffic_rank, top_traffic, tax_rate,
                    price_reduction, top_n, country_sim, trend, call, ret >>

NextSection(status, following) ==
    CASE status = "ok"   -> following
      [] status = "stop" -> "stopped"
      [] OTHER           -> "error"

EtlPrices ==
    /\ pc = "etl_prices"
    /\ LET o == etl_prices(prices)
       IN  /\ prices' = o.df
           /\ year_col' = o.year_col
           /\ country_col' = o.country_col
           /\ diagnostic' = o.diagnostic
           /\ pc' = NextSection(o.status, "etl_seizures")
    /\ cache' = AfterColumnsAssigned("prices", PricesColumns(prices.columns))
    /\ UNCHANGED << files, ui, interactions, seizures, crimes,
                    drug_tags, econ_status, countries, df_price, kpis,
                    price_trend, seiz_reg, rep_merge, seiz_country,
                    crime_country, traffic_rank, top_traffic, tax_rate,
                    price_reduction, top_n, country_sim, trend, call, ret >>

EtlSeizures ==
    /\ pc = "etl_seizures"
    /\ LET o == etl_seizures(seizures)
       IN  /\ seizures' = o.df
           /\ year_col' = o.year_col
           /\ country_col' = o.country_col
           /\ diagnostic' = o.diagnostic
           /\ pc' = NextSection(o.status, "etl_crimes")
    /\ cache' = AfterColumnsAssigned("seizures", SeizuresColumns(seizures.columns))
    /\ UNCHANGED << files, ui, interactions, prices, crimes,
                    drug_tags, econ_status, countries, df_price, kpis,
                    price_trend, seiz_reg, rep_merge, seiz_country,
                    crime_country, traffic_rank, top_traffic, tax_rate,
                    price_reduction, top_n, country_sim, trend, call, ret >>

EtlCrimes ==
    /\ pc = "etl_crimes"
    /\ LET o == etl_crimes(crimes)
       IN  /\ crimes' = o.df
           /\ year_col' = o.year_col
           /\ country_col' = o.country_col
           /\ diagnostic' = o.diagnostic
           /\ pc' = NextSection(o.status, "sidebar")
    /\ cache' = AfterColumnsAssigned("crimes", CrimesColumns(crimes.columns))
    /\ UNCHANGED << files, ui, interactions, prices, seizures,
                    drug_tags, econ_status, countries, df_price, kpis,
                    price_trend, seiz_reg, rep_merge, seiz_country,
                    crime_country, traffic_rank, top_traffic, tax_rate,
                    price_reduction, top_n, country_sim, trend, call, ret >>

(***************************************************************************)
(* SIDEBAR and the filtered view (app.py 164-196)                          *)
(***************************************************************************)
\* a widget returns what the user last set, or its default
Widget(w, default) == IF ui[w].set THEN ui[w].val ELSE default

Sidebar ==
    /\ pc = "sidebar"
    /\ drug_tags' = Widget("drug_tags", Options(prices, "Drug_Tag"))
    /\ econ_status' = Widget("econ_status", EconOptions)
    /\ countries' = Widget("countries", {})
    /\ pc' = "filter"
    /\ UNCHANGED << files, cache, ui, interactions, prices, seizures, crimes,
                    year_col, country_col, diagnostic, df_price, kpis,
                    price_trend, seiz_reg, rep_merge, seiz_country,
                    crime_country, traffic_rank, top_traffic, tax_rate,
                    price_reduction, top_n, country_sim, trend, call, ret >>

Filter ==
    /\ pc = "filter"
    /\ df_price' = FilterPrices(prices, drug_tags, econ_status, countries)
    /\ pc' = "kpis"
    /\ UNCHANGED << files, cache, ui, interactions, prices, seizures, crimes,
                    year_col, country_col, diagnostic, drug_tags, econ_status,
                    countries, kpis, price_trend, seiz_reg, rep_merge,
                    seiz_country, crime_country, traffic_rank, top_traffic,
                    tax_rate, price_reduction, top_n, country_sim, trend,
                    call, ret >>

(***************************************************************************)
(* KPIs, price trend, repression against price (app.py 200-286)            *)
(***************************************************************************)
ShowKpis ==
    /\ pc = "kpis"
    /\ kpis' = Kpis(df_price)
    /\ pc' = "price_trend"
    /\ UNCHANGED << files, cache, ui, interactions, prices, seizures, crimes,
                    year_col, country_col, diagnostic, drug_tags, econ_status,
                    countries, df_price, price_trend, seiz_reg, rep_merge,
                    seiz_country, crime_country, traffic_rank, top_traffic,
                    tax_rate, price_reduction, top_n, country_sim, trend,
                    call, ret >>

ShowPriceTrend ==
    /\ pc = "price_trend"
    /\ price_trend' = PriceTrend(df_price)
    /\ pc' = "repression"
    /\ UNCHANGED << files, cache, ui, interactions, prices, seizures, crimes,
                    year_col, country_col, diagnostic, drug_tags, econ_status,
                    countries, df_price, kpis, seiz_reg, rep_merge,
                    seiz_country, crime_country, traffic_rank, top_traffic,
                    tax_rate, price_reduction, top_n, country_sim, trend,
                    call, ret >>

ShowRepression ==
    /\ pc = "repression"
    /\ seiz_reg' = SeizReg(seizures, drug_tags, econ_status)
    /\ rep_merge' = RepMerge(price_trend, seiz_reg')
    /\ pc' = "ranking"
    /\ UNCHANGED << files, cache, ui, interactions, prices, seizures, crimes,
                    year_col, country_col, diagnostic, drug_tags, econ_status,
                    countries, df_price, kpis, price_trend,
                    seiz_country, crime_country, traffic_rank, top_traffic,
                    tax_rate, price_reduction, top_n, country_sim, trend,
                    call, ret >>

(***************************************************************************)
(* Traffic ranking (app.py 294-304)                                        *)
(***************************************************************************)
Ranking ==
    /\ pc = "ranking"
    /\ seiz_country' = SeizCountry(seizures)
    /\ IF ~HasCol(crimes, "Calculated_total")
       THEN /\ diagnostic' = KeyErrorDiagnostic("crime_country", "Calculated_total")
            /\ pc' = "error"
            /\ UNCHANGED << crime_country, traffic_rank, top_traffic >>
       ELSE IF CrimeCountryRaises(crimes)
       THEN /\ diagnostic' = TypeErrorDiagnostic("crime_country", "Calculated_total")
            /\ pc' = "error"
            /\ UNCHANGED << crime_country, traffic_rank, top_traffic >>
       ELSE /\ crime_country' = CrimeCountry(crimes)
            /\ LET merged == TrafficMerge(seiz_country', crime_country')
               IN  IF \E r \in merged : r.Calculated_total.k = "str"
                   THEN \* a text divided by a text
                        /\ traffic_rank' = merged
                        /\ diagnostic' = TypeErrorDiagnostic("traffic_rank", "Calculated_total")
                        /\ pc' = "error"
                        /\ UNCHANGED top_traffic
                   ELSE /\ traffic_rank' = TrafficScore(merged)
                        /\ \E t \in Descending(traffic_rank', "Traffic_Score") :
                                top_traffic' = head(t, TopTraffic)
                        /\ pc' = "simulation"
                        /\ UNCHANGED diagnostic
    /\ UNCHANGED << files, cache, ui, interactions, prices, seizures, crimes,
                    year_col, country_col, drug_tags, econ_status,
                    countries, df_price, kpis, price_trend, seiz_reg, rep_merge,
                    tax_rate, price_reduction, top_n, country_sim, trend,
                    call, ret >>

(***************************************************************************)
(* Revenue simulation and the final trend (app.py 333-412)                 *)
(***************************************************************************)
Simulation ==
    /\ pc = "simulation"
    /\ tax_rate' = Widget("tax_rate", TaxDefault)
    /\ price_reduction' = Widget("price_reduction", ReductionDefault)
    /\ top_n' = Widget("top_n", TopDefault)
    /\ \E t \in Descending(CountrySim(df_price, tax_rate', price_reduction'),
                           "Tax_Revenue") :
            country_sim' = head(t, top_n')
    /\ pc' = "trend"
    /\ UNCHANGED << files, cache, ui, interactions, prices, seizures, crimes,
                    year_col, country_col, diagnostic, drug_tags, econ_status,
                    countries, df_price, kpis, price_trend, seiz_reg, rep_merge,
                    seiz_country, crime_country, traffic_rank, top_traffic,
                    trend, call, ret >>

ShowTrend ==
    /\ pc = "trend"
    /\ trend' = Trend(df_price)
    /\ pc' = "done"
    /\ UNCHANGED << files, cache, ui, interactions, prices, seizures, crimes,
                    year_col, country_col, diagnostic, drug_tags, econ_status,
                    countries, df_price, kpis, price_trend, seiz_reg, rep_merge,
                    seiz_country, crime_country, traffic_rank, top_traffic,
                    tax_rate, price_reduction, top_n, country_sim, call, ret >>

(***************************************************************************)
(* A widget change: the session keeps the value and the script runs again  *)
(* from its first line in a fresh namespace                                *)
(***************************************************************************)
Rerun(w, v) ==
    /\ pc = "done"
    /\ interactions < MaxInteractions
    /\ ui' = [ui EXCEPT ![w] = [set |-> TRUE, val |-> v]]
    /\ interactions' = interactions + 1
    /\ pc' = "load"
    /\ StartAfresh
    /\ UNCHANGED << files, cache, call, ret >>

\* the selections the user makes in a multiselect: a few entries, or all
Picks(options) ==
    {S \in SUBSET options : Cardinality(S) <= MaxSelected \/ S = options}

\* the countries the user picks among
CountryPicks == {"Germany", "Peru"}

PickDrugs ==
    /\ pc = "done"
    /\ \E S \in Picks(Options(prices, "Drug_Tag")) :
            S # drug_tags /\ Rerun("drug_tags", S)

PickStatus ==
    \E S \in SUBSET EconOptions : S # econ_status /\ Rerun("econ_status", S)

PickCountries ==
    /\ pc = "done"
    /\ \E S \in SUBSET (Options(prices, "Country") \cap CountryPicks) :
            /\ Cardinality(S) <= MaxSelected
            /\ S # countries
            /\ Rerun("countries", S)

SlideTax ==
    \E v \in {TaxMin, TaxDefault, TaxMax} : v # tax_rate /\ Rerun("tax_rate", v)

SlideReduction ==
    \E v \in {ReductionMin, ReductionDefault, ReductionMax} :
        v # price_reduction /\ Rerun("price_reduction", v)

SlideTopN ==
    \E v \in {TopMin, TopDefault, TopMax} : v # top_n /\ Rerun("top_n", v)

(***************************************************************************)
(* One call of a classifier or of the column normaliser of a table         *)
(***************************************************************************)
Return(value) ==
    /\ pc = "call"
    /\ ret' = << value >>
    /\ pc' = "returned"
    /\ UNCHANGED << files, cache, ui, interactions, scriptVars, call >>

CallTagDrug == call.fn = "tag_drug" /\ Return(tag_drug(call.arg))

CallClassifyCountry ==
    call.fn = "classify_country" /\ Return(classify_country(call.arg))

Detected(columns) ==
    [columns |-> columns,
     year_col |-> detect_year_column(columns),
     country_col |-> detect_country_column(columns)]

NormalizePrices == call.fn = "prices" /\ Return(Detected(PricesColumns(call.arg)))

NormalizeSeizures ==
    call.fn = "seizures" /\ Return(Detected(SeizuresColumns(call.arg)))

NormalizeCrimes == call.fn = "crimes" /\ Return(Detected(CrimesColumns(call.arg)))

(***************************************************************************)
(* The spreadsheets the runs are given                                     *)
(***************************************************************************)
SeqsUpTo(pool, n) == UNION {[1..m -> pool] : m \in 0..n}

PricesStdHeader == << "Year", "Country", "Drug", "Region", "Typical_USD" >>
SeizuresStdHeader == << "Year", "Country", "DrugName", "Region", "Kilograms" >>
CrimesStdHeader == << "Year", "Country", "Calculated_total" >>

\* the headers a file comes with: the standard ones, spellings the
\* normaliser is there for, and files without a year or a country column
PricesHeaders ==
    { PricesStdHeader,
      << " Reference year ", "Country/Territory", "Drug", "Region", "Typical USD" >>,
      << "Ano", "Country", "Drug", "Region", "Typical_USD" >>,
      << "Year", "Pais", "Drug", "Region", "Typical_USD" >>,
      << "Year", "Country:Territory", "Drug", "Region", "Typical_USD" >> }

SeizuresHeaders ==
    { SeizuresStdHeader,
      << "Reference period", "Country or territory", "DrugName", "Region", "Kilograms" >>,
      << "Ano", "Country", "DrugName", "Region", "Kilograms" >>,
      << "Year", "Pais", "DrugName", "Region", "Kilograms" >>,
      << "YEAR", "Country:Territory", "DrugName", "Region", "Kilograms" >> }

CrimesHeaders ==
    { CrimesStdHeader,
      << "Year:", "Territory", "Calculated total" >>,
      << "Ano", "Country", "Calculated_total" >>,
      << "Year", "Pais", "Calculated_total" >>,
      << "Reference/year", "Country", "Calculated_total" >> }

SmallPrices ==
    << << Num(2020), Str("Germany"), Str("Cocaine (street)"), Str("Europe"), Num(80) >>,
       << Num(2019), Str("Peru"), Str("Heroin"), Str("Americas"), Num(12) >> >>

SmallSeizures ==
    << << Num(2020), Str("Germany"), Str("Cocaine"), Str("Europe"), Num(500) >>,
       << Num(2019), Str("Peru"), Str("Heroin"), Str("Americas"), Num(900) >> >>

SmallCrimes ==
    << << Num(2020), Str("Germany"), Num(30) >>,
       << Num(2019), Str("Peru"), Num(7) >> >>

\* rows as spreadsheets hold them: numbers, numbers typed as text, texts
\* that are no number, empty cells
PriceRows ==
    { << Num(2020), Str("Germany"), Str("Cocaine (street)"), Str("Europe"), Num(80) >>,
      << Str("2019"), Str("Peru"), Str("Heroin"), Str("Americas"), Str("12") >>,
      << Str("n/a"), Str("Peru"), Str("Heroin"), Str("Americas"), Num(5) >>,
      << Num(2020), NaN, Str("LSD"), Str("Asia"), NaN >>,
      << Num(2020), Str("Germany"), Str("Ecstasy"), Str("Europe"), Str("unknown") >> }

SeizureRows ==
    { << Num(2020), Str("Germany"), Str("Cocaine"), Str("Europe"), Num(500) >>,
      << Num(2020), Str("Germany"), Str("heroin"), Str("Europe"), Str("7") >>,
      << NaN, Str("Peru"), Str("Heroin"), Str("Americas"), Num(3) >>,
      << Num(2020), Str("Peru"), Str("Cocaine"), Str("Americas"), Str("seized") >> }

CrimeRows ==
    { << Num(2020), Str("Germany"), Num(30) >>,
      << Num(2019), Str("Germany"), Str("12") >>,
      << Num(2020), Str("Germany"), Str("7") >>,
      << Num(2020), Str("Peru"), NaN >>,
      << Str("n/a"), Str("Peru"), Num(4) >> }

Files(ph, pr, sh, sr, ch, cr) ==
    [prices   |-> [columns |-> ph, rows |-> pr],
     seizures |-> [columns |-> sh, rows |-> sr],
     crimes   |-> [columns |-> ch, rows |-> cr]]

\* the files of a single run: one table departs from the small standard
\* ones, in its header or in its rows
RunFiles ==
    {Files(h, SmallPrices, SeizuresStdHeader, SmallSeizures, CrimesStdHeader, SmallCrimes) :
        h \in PricesHeaders}
    \cup
    {Files(PricesStdHeader, SmallPrices, h, SmallSeizures, CrimesStdHeader, SmallCrimes) :
        h \in SeizuresHeaders}
    \cup
    {Files(PricesStdHeader, SmallPrices, SeizuresStdHeader, SmallSeizures, h, SmallCrimes) :
        h \in CrimesHeaders}
    \cup
    {Files(PricesStdHeader, r, SeizuresStdHeader, SmallSeizures, CrimesStdHeader, SmallCrimes) :
        r \in SeqsUpTo(PriceRows, MaxRows)}
    \cup
    {Files(PricesStdHeader, SmallPrices, SeizuresStdHeader, r, CrimesStdHeader, SmallCrimes) :
        r \in SeqsUpTo(SeizureRows, MaxRows)}
    \cup
    {Files(PricesStdHeader, SmallPrices, SeizuresStdHeader, SmallSeizures, CrimesStdHeader, r) :
        r \in SeqsUpTo(CrimeRows, MaxRows)}

\* the price table of the sessions: ten Germany rows at 100 USD, six more
\* countries (Brazil and Peru with the same mean and count), a row no tag
\* matches, a row without a country and a row without a year
Times(n, row) == [i \in 1..n |-> row]

DashboardPrices ==
    Times(10, << Num(2020), Str("Germany"), Str("Cocaine (street)"), Str("Europe"), Num(100) >>)
    \o << << Num(2020), Str("France"), Str("Heroin"), Str("Europe"), Num(60) >>,
          << Num(2019), Str("Japan"), Str("Ecstasy (MDMA)"), Str("Asia"), Str("250") >>,
          << Num(2020), Str("Peru"), Str("Cocaine base"), Str("Americas"), Num(20) >>,
          << Num(2019), Str("India"), Str("Heroin"), Str("Asia"), Num(10) >>,
          << Num(2020), Str("Brazil"), Str("Cocaine"), Str("Americas"), Num(20) >>,
          << Num(2020), Str("USA"), Str("Cocaine"), Str("Americas"), Num(150) >>,
          << Num(2020), Str("France"), Str("LSD"), Str("Europe"), Num(5) >>,
          << Num(2020), NaN, Str("Heroin"), Str("Asia"), Num(30) >>,
          << Str("n/a"), Str("Peru"), Str("Heroin"), Str("Americas"), Num(99) >> >>

\* a row some sessions have on top: a negative price
ExtraPriceRows ==
    { << Num(2020), Str("Chile"), Str("Cannabis resin"), Str("Americas"), Num(-40) >> }

DashboardSeizures ==
    << << Num(2020), Str("Germany"), Str("Cocaine"), Str("Europe"), Num(500) >>,
       << Num(2020), Str("Peru"), Str("Cocaine"), Str("Americas"), Num(900) >>,
       << Num(2019), Str("Japan"), Str("ATS"), Str("Asia"), Str("40") >>,
       << Num(2020), Str("France"), Str("Heroin"), Str("Europe"), NaN >> >>

DashboardCrimes ==
    << << Num(2020), Str("Germany"), Num(30) >>,
       << Num(2019), Str("Germany"), Num(12) >>,
       << Num(2020), Str("Peru"), Num(7) >>,
       << Num(2020), Str("Japan"), NaN >> >>

\* the headers as the spreadsheets of the sessions spell them
DashboardPricesHeader == << "Year", "Country/Territory", "Drug", "Region", "Typical USD" >>
DashboardSeizuresHeader == << "Reference period", "Country", "DrugName", "Region", " Kilograms" >>
DashboardCrimesHeader == << "Year:", "Country", "Calculated total" >>

SessionFiles ==
    {Files(DashboardPricesHeader, DashboardPrices \o extra, DashboardSeizuresHeader,
           DashboardSeizures, DashboardCrimesHeader, DashboardCrimes) :
        extra \in SeqsUpTo(ExtraPriceRows, 1)}

(***************************************************************************)
(* The arguments the functions are called with                             *)
(***************************************************************************)
Fragments ==
    { "mdma", "Ecstasy", "COCAINE", "heroin", "Cannabis", "marijuana",
      "hashish", "Amphetamine", "ats", "LSD", "opi", " " }

RECURSIVE Names(_)
Names(n) ==
    IF n = 0 THEN {""}
    ELSE Names(n - 1) \cup {a \o t : a \in Names(n - 1), t \in Fragments}

DrugArgs ==
    {Str(name) : name \in Names(MaxTokens)} \cup {NaN, PyNone, Num(7)}

CountryArgs ==
    {Str(c) : c \in OECD_COUNTRIES}
    \cup {Str(c) : c \in {"USA", "United States of America", "united states",
                          "GERMANY", "Germany ", "Korea", "Czechia", "Brazil",
                          "Peru", "India", "Turkiye", "UK", ""}}
    \cup {NaN, PyNone, Num(7)}

RawHeaders ==
    { "Year", " year ", "Reference year", "REFERENCE PERIOD", "Reference:year",
      "Country", "Country/Territory", "Country or territory",
      "Country:Territory", "Territory\t", "Year:", "Pais", "Drug" }

HeaderArgs == SeqsUpTo(RawHeaders, MaxColumns)

Calls ==
    {[fn |-> "tag_drug", arg |-> a] : a \in DrugArgs}
    \cup {[fn |-> "classify_country", arg |-> a] : a \in CountryArgs}
    \cup {[fn |-> t, arg |-> a] : t \in {"prices", "seizures", "crimes"}, a \in HeaderArgs}

(***************************************************************************)
(* Specifications                                                          *)
(***************************************************************************)
InitScript ==
    /\ pc = "load"
    /\ cache = NoCache
    /\ ui = NoUi
    /\ interactions = 0
    /\ FreshScript
    /\ call = NoCall
    /\ ret = <<>>

\* a session on the dashboard files
Init == files \in SessionFiles /\ InitScript

\* a single run on files of every kind
InitRun == files \in RunFiles /\ InitScript

\* one call of a function
InitCall ==
    /\ pc = "call"
    /\ files = Files(<<>>, <<>>, <<>>, <<>>, <<>>, <<>>)
    /\ cache = NoCache
    /\ ui = NoUi
    /\ interactions = 0
    /\ FreshScript
    /\ call \in Calls
    /\ ret = <<>>

Run ==
    \/ Load
    \/ EtlPrices
    \/ EtlSeizures
    \/ EtlCrimes
    \/ Sidebar
    \/ Filter
    \/ ShowKpis
    \/ ShowPriceTrend
    \/ ShowRepression
    \/ Ranking
    \/ Simulation
    \/ ShowTrend

Interact ==
    \/ PickDrugs
    \/ PickStatus
    \/ PickCountries
    \/ SlideTax
    \/ SlideReduction
    \/ SlideTopN

Next == Run \/ Interact

NextCall ==
    \/ CallTagDrug
    \/ CallClassifyCountry
    \/ NormalizePrices
    \/ NormalizeSeizures
    \/ NormalizeCrimes

Spec == Init /\ [][Next]_vars

SpecRun == InitRun /\ [][Run]_vars

SpecCall == InitCall /\ [][NextCall]_vars

(***************************************************************************)
(* Properties of the functions, checked under SpecCall                     *)
(***************************************************************************)
Tables == {"prices", "seizures", "crimes"}

Returned(fns) == pc = "returned" /\ call.fn \in fns

\* out is s with every character of `under` turned into an underscore and
\* every character of `gone` deleted
IsRewritten(s, out, under, gone) ==
    LET kept  == {i \in 1..Len(s) : Ch(s, i) \notin gone}
        at(i) == Cardinality({j \in kept : j <= i})
    IN  /\ Len(out) = Cardinality(kept)
        /\ \A i \in kept :
              Ch(out, at(i)) = IF Ch(s, i) \in under THEN "_" ELSE Ch(s, i)

\* out is s stripped of its surrounding whitespace, then rewritten
IsNormalized(s, out, under, gone) ==
    \E a \in 1..(Len(s) + 1), b \in 0..Len(s) :
        /\ a <= b + 1
        /\ \A i \in 1..(a - 1) : Ch(s, i) \in Whitespace
        /\ \A i \in (b + 1)..Len(s) : Ch(s, i) \in Whitespace
        /\ a <= b => Ch(s, a) \notin Whitespace /\ Ch(s, b) \notin Whitespace
        /\ IsRewritten(IF a <= b THEN SubSeq(s, a, b) ELSE "", out, under, gone)

YearNames == {"Year", "Reference_year", "Reference_period"}
CountryNames ==
    {"Country", "Country_Territory", "Country/Territory",
     "Country_or_territory", "Territory"}

Matches(name, names) == \E c \in names : Lower(name) = Lower(c)

\* r is some column of `columns` matching one of `names`, or null when no
\* column matches
IsSomeMatch(columns, r, names) ==
    IF \E i \in 1..Len(columns) : Matches(columns[i], names)
    THEN r.found /\ \E i \in 1..Len(columns) :
                        r.col = columns[i] /\ Matches(columns[i], names)
    ELSE r = None

\* r is the first column of `columns`, in column order, matching one of
\* `names`, or null when no column matches
IsFirstMatch(columns, r, names) ==
    IF \E i \in 1..Len(columns) : Matches(columns[i], names)
    THEN r.found /\ \E i \in 1..Len(columns) :
                        /\ r.col = columns[i]
                        /\ Matches(columns[i], names)
                        /\ \A j \in 1..(i - 1) : ~Matches(columns[j], names)
    ELSE r = None

\* what a table's normaliser turns into an underscore, and what it deletes
Underscored(table) ==
    CASE table = "prices"   -> {" ", "/"}
      [] table = "seizures" -> {" "}
      [] table = "crimes"   -> {" "}

Deleted(table) == IF table = "crimes" THEN {":"} ELSE {}

\* C3, as the specification states it: in every one of the three tables the
\* normalised header is the raw one stripped of surrounding whitespace with
\* each space, slash and colon replaced by an underscore, and detection
\* returns a column matching a candidate case-insensitively, or null when
\* none matches.
C3_SameNormalisationInEveryTable ==
    Returned(Tables) =>
        LET out == ret[1]
        IN  /\ Len(out.columns) = Len(call.arg)
            /\ \A i \in 1..Len(call.arg) :
                  IsNormalized(call.arg[i], out.columns[i], {" ", "/", ":"}, {})
            /\ IsSomeMatch(out.columns, out.year_col, YearNames)
            /\ IsSomeMatch(out.columns, out.country_col, CountryNames)

\* C3, as the code has it: every table's normaliser strips surrounding
\* whitespace and replaces each space by an underscore; a slash becomes an
\* underscore in the prices table only, a colon is deleted in the crimes
\* table only, and otherwise slashes and colons stay; detection returns the
\* first column, in column order, whose normalised name equals a candidate
\* case-insensitively, or null when none does.
C3_NormalisationPerTable ==
    Returned(Tables) =>
        LET out == ret[1]
        IN  /\ Len(out.columns) = Len(call.arg)
            /\ \A i \in 1..Len(call.arg) :
                  IsNormalized(call.arg[i], out.columns[i],
                               Underscored(call.fn), Deleted(call.fn))
            /\ IsFirstMatch(out.columns, out.year_col, YearNames)
            /\ IsFirstMatch(out.columns, out.country_col, CountryNames)

\* the crimes normaliser has deleted a colon and kept a slash, and both
\* columns are detected
C3_Witness ==
    /\ Returned({"crimes"})
    /\ call.arg = << "Year:", "Country/Territory" >>
    /\ ret[1].columns = << "Year", "Country/Territory" >>
    /\ ret[1].year_col = Found("Year")
    /\ ret[1].country_col = Found("Country/Territory")

TagOrder == << "MDMA", "Cocaine", "Heroin", "Cannabis", "Amphetamine" >>

KeywordsOf(tag) ==
    LET entry == CHOOSE e \in {DRUG_TAGS[i] : i \in 1..Len(DRUG_TAGS)} : e.tag = tag
    IN  {entry.keys[j] : j \in 1..Len(entry.keys)}

\* the places, in the fixed order, of the tags a keyword of which is in text
TagHits(text) ==
    {i \in 1..Len(TagOrder) : \E k \in KeywordsOf(TagOrder[i]) : Contains(text, k)}

\* C4: tag_drug returns null for an absent or empty input, otherwise the
\* first tag in the order MDMA, Cocaine, Heroin, Cannabis, Amphetamine one
\* of whose keywords is a substring of the lower-cased input, and null when
\* no keyword is; "Cocaine (street)" yields Cocaine.
C4_FirstMatchingTag ==
    /\ Returned({"tag_drug"}) =>
          LET name == call.arg
              hits == IF isna(name) THEN {} ELSE TagHits(Lower(PyStr(name)))
          IN  /\ (isna(name) \/ name = Str("")) => ret[1] = PyNone
              /\ hits = {} => ret[1] = PyNone
              /\ hits # {} =>
                    ret[1] = Str(TagOrder[CHOOSE i \in hits : \A j \in hits : i <= j])
    /\ tag_drug(Str("Cocaine (street)")) = Str("Cocaine")

\* a name with keywords of two tags has been given the earlier tag
C4_Witness ==
    /\ Returned({"tag_drug"})
    /\ call.arg = Str("heroinCOCAINE")
    /\ TagHits(Lower(PyStr(call.arg))) = {2, 3}
    /\ ret[1] = Str("Cocaine")

\* C8: classify_country returns "Desenvolvido" for each of the 36 names of
\* the static set and "Em desenvolvimento" for every other input, a case
\* or alias variant such as "USA" and a missing country included.
C8_ExactMatchOnly ==
    /\ Cardinality(OECD_COUNTRIES) = 36
    /\ Returned({"classify_country"}) =>
          /\ ret[1] \in {"Desenvolvido", "Em desenvolvimento"}
          /\ ret[1] = "Desenvolvido" <=>
                \E c \in OECD_COUNTRIES : call.arg = Str(c)
          /\ call.arg \in {Str("USA"), Str("GERMANY"), Str("united states"),
                           Str("Germany "), NaN, PyNone} =>
                ret[1] = "Em desenvolvimento"

\* an alias of a listed country has been classified as developing
C8_Witness ==
    /\ Returned({"classify_country"})
    /\ call.arg = Str("USA")
    /\ ret[1] = "Em desenvolvimento"

(***************************************************************************)
(* Properties of a single run, checked under SpecRun                       *)
(***************************************************************************)
Halted == pc \in {"stopped", "error"}

EtlSections == << "etl_prices", "etl_seizures", "etl_crimes" >>

TableOf(section) ==
    CASE section = "etl_prices"   -> "prices"
      [] section = "etl_seizures" -> "seizures"
      [] section = "etl_crimes"   -> "crimes"

\* the run is past the ETL of the i-th table, or has halted in it
EtlReached(i) ==
    /\ pc \notin {"load"} \cup {EtlSections[j] : j \in 1..i}
    /\ Halted => diagnostic.section \notin {TableOf(EtlSections[j]) : j \in 1..(i - 1)}

\* the run has halted in the ETL of the i-th table
HaltedIn(i) == Halted /\ diagnostic.section = TableOf(EtlSections[i])

\* the run is past the ETL of the i-th table
EtlDone(i) == EtlReached(i) /\ ~HaltedIn(i)

FrameOf(table) ==
    CASE table = "prices"   -> prices
      [] table = "seizures" -> seizures
      [] table = "crimes"   -> crimes

\* the header of a table of the files, as the ETL of the table normalises it
NormalizedHeader(table) ==
    CASE table = "prices"   -> PricesColumns(files.prices.columns)
      [] table = "seizures" -> SeizuresColumns(files.seizures.columns)
      [] table = "crimes"   -> CrimesColumns(files.crimes.columns)

LacksRequired(table) ==
    \/ \A i \in 1..Len(NormalizedHeader(table)) :
          ~Matches(NormalizedHeader(table)[i], YearNames)
    \/ \A i \in 1..Len(NormalizedHeader(table)) :
          ~Matches(NormalizedHeader(table)[i], CountryNames)

\* C1: for each of the three tables, when no Year column or no Country
\* column is found after header normalisation, the run halts in the ETL of
\* that table, before any later stage, with a diagnostic that lists all the
\* columns of the table.
C1_MissingColumnHaltsWithColumns ==
    \A i \in 1..3 :
        (EtlReached(i) /\ LacksRequired(TableOf(EtlSections[i]))) =>
            /\ HaltedIn(i)
            /\ diagnostic.kind = "columns"
            /\ diagnostic.columns = NormalizedHeader(TableOf(EtlSections[i]))

PrimaryField(table) ==
    CASE table = "prices"   -> "Price_USD"
      [] table = "seizures" -> "Kilograms"
      [] table = "crimes"   -> "Calculated_total"

\* C2: in every normalised table that has come out of its ETL, every row
\* has a number as Year and a number as the primary numeric field of the
\* table (Price_USD, Kilograms, Calculated_total): a row without them is
\* not in the output.
C2_SurvivingRowsAreNumeric ==
    \A i \in 1..3 :
        EtlDone(i) =>
            LET df == FrameOf(TableOf(EtlSections[i]))
            IN  \A r \in 1..Len(df.rows) :
                    /\ Cell(df, r, "Year").k = "num"
                    /\ HasCol(df, PrimaryField(TableOf(EtlSections[i])))
                    /\ Cell(df, r, PrimaryField(TableOf(EtlSections[i]))).k = "num"

RowOrders(n) == {p \in [1..n -> 1..n] : \A i, j \in 1..n : p[i] = p[j] => i = j}

\* the rows of df in every order
Shuffles(df) ==
    {[df EXCEPT !.rows = [i \in 1..Len(df.rows) |-> df.rows[p[i]]]] :
        p \in RowOrders(Len(df.rows))}

\* the mean and the count of Price_USD by Country, as the simulation has them
CountryStats(df) ==
    {[Country |-> r.Country, Avg_Price |-> r.Avg_Price, Transactions |-> r.Transactions] :
        r \in CountrySim(df, TaxDefault, ReductionDefault)}

\* the run has computed crime_country
CrimeCountryComputed ==
    \/ pc \in {"simulation", "trend", "done"}
    \/ pc = "error" /\ diagnostic.section = "traffic_rank"

\* C9: every group-by aggregate of the run, as a mapping from group key to
\* value, is the one computed on the rows of its table in any other order.
C9_AggregatesIgnoreRowOrder ==
    /\ pc \in {"repression", "ranking", "simulation", "trend", "done"} =>
          \A d \in Shuffles(prices) :
              price_trend = PriceTrend(FilterPrices(d, drug_tags, econ_status, countries))
    /\ pc \in {"ranking", "simulation", "trend", "done"} =>
          \A d \in Shuffles(seizures) : seiz_reg = SeizReg(d, drug_tags, econ_status)
    /\ pc \in {"simulation", "trend", "done"} =>
          \A d \in Shuffles(seizures) : seiz_country = SeizCountry(d)
    /\ CrimeCountryComputed =>
          \A d \in Shuffles(crimes) :
              ~CrimeCountryRaises(d) /\ crime_country = CrimeCountry(d)
    /\ pc \in {"trend", "done"} =>
          \A d \in Shuffles(prices) :
              {[Country |-> r.Country, Avg_Price |-> r.Avg_Price,
                Transactions |-> r.Transactions] :
                  r \in {country_sim[i] : i \in 1..Len(country_sim)}}
              = CountryStats(FilterPrices(d, drug_tags, econ_status, countries))
    /\ pc = "done" =>
          \A d \in Shuffles(prices) :
              trend = Trend(FilterPrices(d, drug_tags, econ_status, countries))

(***************************************************************************)
(* Properties of a session, checked under Spec                             *)
(***************************************************************************)
ViewComputed ==
    pc \in {"kpis", "price_trend", "repression", "ranking", "simulation",
            "trend", "done"}

SimComputed == pc \in {"trend", "done"}

\* a normalised price row is in the current selection
Selected(row) ==
    LET tag     == row[ColIndex(prices, "Drug_Tag")]
        status  == row[ColIndex(prices, "Economic_Status")]
        country == row[ColIndex(prices, "Country")]
    IN  /\ tag.k = "str" /\ tag.s \in drug_tags
        /\ status.k = "str" /\ status.s \in econ_status
        /\ countries # {} => country.k = "str" /\ country.s \in countries

Occurrences(seq, x) == Cardinality({i \in 1..Len(seq) : seq[i] = x})

RowsIn(df) == {df.rows[i] : i \in 1..Len(df.rows)}

\* C10: df_price holds exactly the normalised price rows whose Drug_Tag is
\* among the selected tags, whose Economic_Status is among the selected
\* statuses and, when countries are selected, whose Country is among them;
\* an empty tag or status selection gives an empty view, empty aggregates
\* and no error; a row with a null Drug_Tag is in no view.
C10_ViewIsTheSelection ==
    ViewComputed =>
        /\ df_price.columns = prices.columns
        /\ \A x \in RowsIn(prices) \cup RowsIn(df_price) :
              Occurrences(df_price.rows, x) =
                  IF Selected(x) THEN Occurrences(prices.rows, x) ELSE 0
        /\ \A x \in RowsIn(df_price) : x[ColIndex(prices, "Drug_Tag")] # PyNone
        /\ (drug_tags = {} \/ econ_status = {}) =>
              /\ df_price.rows = <<>>
              /\ pc \notin {"stopped", "error"}
              /\ pc # "kpis" => kpis = [NoKpis EXCEPT !.mean_price = FNaN]
              /\ pc \notin {"kpis", "price_trend"} => price_trend = {}
              /\ pc \notin {"kpis", "price_trend", "repression"} =>
                    seiz_reg = {} /\ rep_merge = {}
              /\ SimComputed => country_sim = <<>>
              /\ pc = "done" => trend = {}

\* a run with no drug tag selected has ended with an empty view, over
\* prices that hold rows, one of them with a null Drug_Tag
C10_Witness ==
    /\ pc = "done"
    /\ ui.drug_tags.set /\ drug_tags = {}
    /\ Len(prices.rows) > 0
    /\ \E r \in 1..Len(prices.rows) : Cell(prices, r, "Drug_Tag") = PyNone
    /\ df_price.rows = <<>>
    /\ country_sim = <<>> /\ trend = {}

\* the countries of a frame, and the rows of one of them
CountriesOf(df) ==
    {Cell(df, r, "Country").s :
        r \in {q \in 1..Len(df.rows) : Cell(df, q, "Country").k = "str"}}

RowsOf(df, c) == {r \in 1..Len(df.rows) : Cell(df, r, "Country") = Str(c)}

RECURSIVE PriceTotal(_, _)
PriceTotal(df, S) ==
    IF S = {} THEN 0
    ELSE LET r == CHOOSE q \in S : TRUE
         IN  Cell(df, r, "Price_USD").v + PriceTotal(df, S \ {r})

MeanPrice(df, c) == Frac(PriceTotal(df, RowsOf(df, c)), Cardinality(RowsOf(df, c)))

\* (mean price x (1 - reduction/100)) x (tax/100) x (row count x 800)
Revenue(df, c, tax, reduction) ==
    FMul(FMul(FMul(MeanPrice(df, c), Frac(100 - reduction, 100)), Frac(tax, 100)),
         FInt(Cardinality(RowsOf(df, c)) * 800))

Listed == {country_sim[i].Country.s : i \in 1..Len(country_sim)}

\* C6: country_sim lists the countries of df_price in descending order of
\* Tax_Revenue = (mean price x (1 - price_reduction/100)) x (tax_rate/100)
\* x (row count x 800), cut to the first top_n, so no country left out has
\* a greater Tax_Revenue than a listed one; Avg_Price 100, Transactions 10,
\* tax_rate 20, price_reduction 30 give Estimated_Volume 8000, Legal_Price
\* 70 and Tax_Revenue 112000.
C6_RankedAndTruncated ==
    /\ SimComputed =>
          LET all == CountriesOf(df_price)
          IN  /\ Len(country_sim) =
                    IF top_n < Cardinality(all) THEN top_n ELSE Cardinality(all)
              /\ \A i \in 1..Len(country_sim) :
                    /\ country_sim[i].Country.k = "str"
                    /\ country_sim[i].Country.s \in all
                    /\ country_sim[i].Tax_Revenue =
                          Revenue(df_price, country_sim[i].Country.s,
                                  tax_rate, price_reduction)
              /\ \A i, j \in 1..Len(country_sim) :
                    i < j =>
                        /\ country_sim[i].Country # country_sim[j].Country
                        /\ ~FLess(country_sim[i].Tax_Revenue, country_sim[j].Tax_Revenue)
              /\ \A c \in all \ Listed : \A i \in 1..Len(country_sim) :
                    ~FLess(country_sim[i].Tax_Revenue,
                           Revenue(df_price, c, tax_rate, price_reduction))
              /\ \A i \in 1..Len(country_sim) :
                    (/\ country_sim[i].Avg_Price = FInt(100)
                     /\ country_sim[i].Transactions = 10
                     /\ tax_rate = 20 /\ price_reduction = 30) =>
                        /\ country_sim[i].Estimated_Volume = 8000
                        /\ country_sim[i].Legal_Price = FInt(70)
                        /\ country_sim[i].Tax_Revenue = FInt(112000)
    /\ LET row == SimRow(Str("Germany"), FInt(100), 10, 20, 30)
       IN  /\ row.Estimated_Volume = 8000
           /\ row.Legal_Price = FInt(70)
           /\ row.Tax_Revenue = FInt(112000)

\* the list is cut to five of more countries, and holds the row of the
\* example: ten transactions at a mean of 100, tax 20, reduction 30
C6_Witness ==
    /\ pc = "done"
    /\ top_n = TopMin
    /\ Cardinality(CountriesOf(df_price)) > TopMin
    /\ Len(country_sim) = TopMin
    /\ tax_rate = 20 /\ price_reduction = 30
    /\ \E i \in 1..Len(country_sim) :
          /\ country_sim[i].Avg_Price = FInt(100)
          /\ country_sim[i].Transactions = 10
          /\ country_sim[i].Tax_Revenue = FInt(112000)

\* the Tax_Revenue of a country of df_price at each tax rate of the slider,
\* as pairs (tax rate, revenue), the price reduction and the data being
\* those of the run
RevenueAt(row) ==
    {<< t, SimRow(row.Country, row.Avg_Price, row.Transactions, t,
                  price_reduction).Tax_Revenue >> : t \in TaxMin..TaxMax}

\* C5: for every country of df_price and every pair of tax rates t1 < t2
\* of the slider range, the price reduction and the data held fixed, the
\* Tax_Revenue at t2 is strictly greater than at t1, or equal when the
\* revenue is zero.
C5_RevenueGrowsWithTax ==
    SimComputed =>
        \A row \in CountrySim(df_price, tax_rate, price_reduction) :
            LET rev == RevenueAt(row)
            IN  \A lo, hi \in rev :
                    lo[1] < hi[1] =>
                        \/ FLess(lo[2], hi[2])
                        \/ lo[2] = hi[2] /\ hi[2] = FInt(0)

\* C7: whatever the interactions so far, the cached load is the files as
\* read, and every table, aggregate and KPI of a finished run is the one
\* computed from the loaded files and the current widget values alone (a
\* ranked list being one of the descending orders of its rows).
C7_OutputsDependOnInputsOnly ==
    /\ cache.loaded => cache.value = files
    /\ pc = "done" =>
          LET p     == etl_prices(files.prices).df
              s     == etl_seizures(files.seizures).df
              c     == etl_crimes(files.crimes).df
              tags  == Widget("drug_tags", Options(p, "Drug_Tag"))
              stats == Widget("econ_status", EconOptions)
              picks == Widget("countries", {})
              tax   == Widget("tax_rate", TaxDefault)
              red   == Widget("price_reduction", ReductionDefault)
              top   == Widget("top_n", TopDefault)
              view  == FilterPrices(p, tags, stats, picks)
              rank  == TrafficScore(TrafficMerge(SeizCountry(s), CrimeCountry(c)))
          IN  /\ prices = p /\ seizures = s /\ crimes = c
              /\ drug_tags = tags /\ econ_status = stats /\ countries = picks
              /\ tax_rate = tax /\ price_reduction = red /\ top_n = top
              /\ df_price = view
              /\ kpis = Kpis(view)
              /\ price_trend = PriceTrend(view)
              /\ seiz_reg = SeizReg(s, tags, stats)
              /\ rep_merge = RepMerge(PriceTrend(view), SeizReg(s, tags, stats))
              /\ seiz_country = SeizCountry(s)
              /\ crime_country = CrimeCountry(c)
              /\ traffic_rank = rank
              /\ top_traffic \in {head(t, TopTraffic) :
                                    t \in Descending(rank, "Traffic_Score")}
              /\ country_sim \in {head(t, top) :
                                    t \in Descending(CountrySim(view, tax, red),
                                                     "Tax_Revenue")}
              /\ trend = Trend(view)

\* after two interactions, the tax slider moved away and back, a run has
\* ended on the widget values of the first run
C7_Witness ==
    /\ pc = "done"
    /\ interactions = 2
    /\ cache.loaded
    /\ ui = [NoUi EXCEPT !.tax_rate = [set |-> TRUE, val |-> TaxDefault]]
    /\ Len(country_sim) > 0

=============================================================================
